---- MODULE Spec2Model ----
(***************************************************************************)
(* A model of the KVStore client (src/src/index.ts): one client object    *)
(* holding four configuration values, the private transport primitive     *)
(* _request and the public operations that go through it.                  *)
(*                                                                         *)
(* A call runs in three steps, one per suspension point of _request:       *)
(*   - the operation builds its parameters, _request builds the request    *)
(*     and hands it to fetch (or JSON.stringify throws and the call        *)
(*     rejects without a request);                                         *)
(*   - fetch resolves with a response (status flag and body text), or      *)
(*     rejects;                                                            *)
(*   - response.json() resolves or rejects, the rest of _request runs and  *)
(*     the operation projects its result.                                  *)
(***************************************************************************)
EXTENDS Integers, Sequences, FiniteSets

VARIABLES
    made,     \* how the client was made: by what, from which arguments
    cfg,      \* the client's fields: apiUrl, accessToken, storeName, dbName
    calls,    \* the calls in flight and the settled calls the caller still holds
    nCalls,   \* operation calls started so far
    nSent     \* requests handed to fetch so far

vars == <<made, cfg, calls, nCalls, nSent>>

(***************************************************************************)
(* Bounds of the model.                                                    *)
(***************************************************************************)
MaxCalls == 2

(***************************************************************************)
(* JavaScript values, tagged by typeof.  An object is the ordered list of *)
(* its own enumerable properties, each a <<key, value>> pair.              *)
(***************************************************************************)
Undefined == [t |-> "undefined"]
Null == [t |-> "null"]
Str(s) == [t |-> "string", s |-> s]
Bool(b) == [t |-> "boolean", b |-> b]
Arr(a) == [t |-> "array", a |-> a]
Obj(m) == [t |-> "object", m |-> m]
\* an object that holds a reference to itself
Cyclic == [t |-> "cyclic"]

IsObj(v) == v.t = "object"

\* !v for the values of the model
Falsy(v) ==
    \/ v.t \in {"undefined", "null"}
    \/ (v.t = "string" /\ v.s = "")
    \/ (v.t = "boolean" /\ ~v.b)

\* a || b
OrElse(a, b) == IF Falsy(a) THEN b ELSE a

HasKey(m, k) == \E i \in 1..Len(m) : m[i][1] = k

\* the value of property k in the property list m (k is a key of m)
Lookup(m, k) == m[CHOOSE i \in 1..Len(m) : m[i][1] = k][2]

\* v.k for a value v that is neither null nor undefined
GetProp(v, k) ==
    IF IsObj(v) /\ HasKey(v.m, k) THEN Lookup(v.m, k) ELSE Undefined

\* assignment of one property: an existing key keeps its position
SetProp(m, k, v) ==
    IF HasKey(m, k)
    THEN [i \in 1..Len(m) |-> IF m[i][1] = k THEN <<k, v>> ELSE m[i]]
    ELSE Append(m, <<k, v>>)

\* { ...params, ...base }: the properties written first win
SpreadDefaultsWin(base, params) ==
    base \o SelectSeq(params, LAMBDA p : ~HasKey(base, p[1]))

\* { ...base, ...params }
RECURSIVE Spread(_, _)
Spread(base, params) ==
    IF params = <<>> THEN base
    ELSE Spread(SetProp(base, Head(params)[1], Head(params)[2]), Tail(params))

\* String(v), as new Error(v) applies it to its message
StringOf(v) ==
    CASE v.t = "string" -> v.s
      [] v.t = "undefined" -> "undefined"
      [] v.t = "null" -> "null"
      [] v.t = "boolean" -> IF v.b THEN "true" ELSE "false"
      [] OTHER -> "[object Object]"

(***************************************************************************)
(* Errors: a name and a message.  new Error(m) has the name "Error"; the   *)
(* JSON layer and the transport raise SyntaxError and TypeError.           *)
(***************************************************************************)
Error(m) == [name |-> "Error", message |-> m]
SyntaxError(m) == [name |-> "SyntaxError", message |-> m]
TypeError(m) == [name |-> "TypeError", message |-> m]

(***************************************************************************)
(* JSON.stringify: throws on a circular structure, drops the properties    *)
(* whose value is undefined, writes undefined array elements as null and   *)
(* keeps the order of the properties.  The text is kept as the document    *)
(* it denotes.                                                             *)
(***************************************************************************)
RECURSIVE HasCycle(_)
HasCycle(v) ==
    CASE v.t = "cyclic" -> TRUE
      [] v.t = "array" -> \E i \in 1..Len(v.a) : HasCycle(v.a[i])
      [] v.t = "object" -> \E i \in 1..Len(v.m) : HasCycle(v.m[i][2])
      [] OTHER -> FALSE

RECURSIVE ToJSON(_)
ToJSON(v) ==
    CASE v.t = "array" ->
            Arr([i \in 1..Len(v.a) |->
                    IF v.a[i].t = "undefined" THEN Null ELSE ToJSON(v.a[i])])
      [] v.t = "object" ->
            LET kept == SelectSeq(v.m, LAMBDA p : p[2].t # "undefined")
            IN  Obj([i \in 1..Len(kept) |-> <<kept[i][1], ToJSON(kept[i][2])>>])
      [] OTHER -> v

JSONstringify(v) ==
    IF HasCycle(v)
    THEN [threw |-> TRUE,
          error |-> TypeError("Converting circular structure to JSON")]
    ELSE [threw |-> FALSE, text |-> ToJSON(v)]

(***************************************************************************)
(* The response bodies the transport may deliver, as texts, and            *)
(* JSON.parse on them.                                                     *)
(***************************************************************************)
EmptyText == ""
HtmlText == "<html>502 Bad Gateway</html>"
NullText == "null"
EmptyObjectText == "{}"
EmptyErrorText == "{\"error\":\"\"}"
ErrorText == "{\"error\":\"X\"}"
SuccessText == "{\"success\":true}"
FullText == "{\"success\":true,\"value\":\"v1\",\"values\":[\"v1\",\"v2\"],\"keys\":[\"k1\"],\"stores\":[\"s1\"],\"entries\":[{\"key\":\"k1\",\"value\":\"v1\"}]}"

BodyTexts ==
    {EmptyText, HtmlText, NullText, EmptyObjectText, EmptyErrorText,
     ErrorText, SuccessText, FullText}

JSONparse(text) ==
    CASE text = NullText -> [threw |-> FALSE, value |-> Null]
      [] text = EmptyObjectText -> [threw |-> FALSE, value |-> Obj(<<>>)]
      [] text = EmptyErrorText ->
            [threw |-> FALSE, value |-> Obj(<< <<"error", Str("")>> >>)]
      [] text = ErrorText ->
            [threw |-> FALSE, value |-> Obj(<< <<"error", Str("X")>> >>)]
      [] text = SuccessText ->
            [threw |-> FALSE, value |-> Obj(<< <<"success", Bool(TRUE)>> >>)]
      [] text = FullText ->
            [threw |-> FALSE,
             value |-> Obj(<< <<"success", Bool(TRUE)>>,
                             <<"value", Str("v1")>>,
                             <<"values", Arr(<<Str("v1"), Str("v2")>>)>>,
                             <<"keys", Arr(<<Str("k1")>>)>>,
                             <<"stores", Arr(<<Str("s1")>>)>>,
                             <<"entries",
                               Arr(<<Obj(<< <<"key", Str("k1")>>,
                                            <<"value", Str("v1")>> >>)>>)>> >>)]
      [] text = EmptyText ->
            [threw |-> TRUE, error |-> SyntaxError("Unexpected end of JSON input")]
      [] OTHER ->
            [threw |-> TRUE, error |-> SyntaxError("Unexpected token < in JSON")]

(***************************************************************************)
(* The values the constructor and the operations are called with.         *)
(***************************************************************************)
ApiUrls == {"https://x/connect", "https://api.example.com/connect"}
AccessTokens == {"t", "test-token"}
StoreNames == {"s"}
DbNames == {"d", ""}

KeyArgs == {Str("k1")}
NameArgs == {Str("newdb")}
DbArgs == {Str("db1"), Str(""), Undefined}
StoreArgs == {Str("store1"), Str(""), Undefined}
ValueArgs ==
    {Str("v1"),
     Obj(<< <<"name", Str("John")>>, <<"active", Bool(TRUE)>> >>),
     Undefined,
     Cyclic}
KeysArgs == {Arr(<<>>), Arr(<<Str("k1"), Str("k2")>>)}
EntriesArgs ==
    {Arr(<<>>),
     Arr(<<Obj(<< <<"key", Str("k1")>>, <<"value", Str("v1")>> >>)>>)}

\* the fields a form may carry besides the declared ones ([key: string]: any)
ExtraFields ==
    {<<>>,
     << <<"role", Str("admin")>> >>,
     << <<"action", Str("delete-database")>> >>,
     << <<"action", Str("")>> >>,
     << <<"dbName", Str("other")>> >>,
     << <<"storeName", Str("")>> >>}

RegisterForms ==
    {<< <<"username", Str("u")>>, <<"email", Str("e")>>,
        <<"password", Str("p")>> >> \o x : x \in ExtraFields}
LoginForms ==
    {<< <<"username", Str("u")>>, <<"password", Str("p")>> >> \o x :
        x \in ExtraFields}

(***************************************************************************)
(* A call: the operation and its arguments, the field the operation reads  *)
(* from the response ("" for the whole response), where the call stands,   *)
(* the request it sent, the response it got and how it settled.            *)
(***************************************************************************)
NoRequest == [sent |-> FALSE]
NoResponse == [arrived |-> FALSE]
Pending == [kind |-> "pending"]
Resolved(v) == [kind |-> "resolved", value |-> v]
Rejected(e) == [kind |-> "rejected", error |-> e]
\* the call expression itself threw: no promise was made
Thrown(e) == [kind |-> "thrown", error |-> e]

InFlight == {c \in calls : c.pc # "settled"}
Settled == {c \in calls : c.pc = "settled"}

\* KVStore's constructor: the four values, stored as given
KVStore(apiUrl, options) ==
    [apiUrl |-> apiUrl,
     accessToken |-> options.accessToken,
     storeName |-> options.storeName,
     dbName |-> options.dbName]

\* the options objects a client is made from
Options ==
    [accessToken : AccessTokens, storeName : StoreNames, dbName : DbNames]

\* new KVStore(apiUrl, options)
Init ==
    /\ \E apiUrl \in ApiUrls, options \in Options :
            /\ made = [by |-> "new", apiUrl |-> apiUrl, options |-> options]
            /\ cfg = KVStore(apiUrl, options)
    /\ calls = {}
    /\ nCalls = 0
    /\ nSent = 0

(***************************************************************************)
(* _request, up to its first await: the request handed to fetch.           *)
(***************************************************************************)
\* the token sent without its scheme
RequestHeadersNoBearer ==
    [ContentType |-> "application/json",
     Authorization |-> cfg.accessToken]

RequestHeaders ==
    [ContentType |-> "application/json",
     Authorization |-> "Bearer " \o cfg.accessToken]

RequestBody(action, params) ==
    Obj(Spread(<< <<"action", Str(action)>>,
                  <<"dbName", Str(cfg.dbName)>>,
                  <<"storeName", Str(cfg.storeName)>> >>, params))

RequestInit(text) ==
    [sent |-> TRUE,
     url |-> cfg.apiUrl,
     method |-> "POST",
     headers |-> RequestHeaders,
     body |-> text]

\* an operation calls _request(action, params): the body is encoded and the
\* request goes to fetch; when the encoding throws, the call rejects at once
_request(op, args, action, params, project) ==
    /\ nCalls < MaxCalls
    /\ LET encoded == JSONstringify(RequestBody(action, params))
       IN  IF encoded.threw
           THEN /\ calls' = InFlight \cup
                        {[id |-> nCalls + 1, op |-> op, args |-> args,
                          project |-> project, pc |-> "settled",
                          request |-> NoRequest, response |-> NoResponse,
                          outcome |-> Rejected(encoded.error)]}
                /\ nSent' = nSent
           ELSE /\ calls' = InFlight \cup
                        {[id |-> nCalls + 1, op |-> op, args |-> args,
                          project |-> project, pc |-> "fetch",
                          request |-> RequestInit(encoded.text),
                          response |-> NoResponse,
                          outcome |-> Pending]}
                /\ nSent' = nSent + 1
    /\ nCalls' = nCalls + 1
    /\ UNCHANGED <<made, cfg>>

\* the response to the request of c is handed to the call that has waited
\* longest, as a single shared response slot would do
fetchResolvesOldest(c, ok, text) ==
    /\ c.pc = "fetch"
    /\ LET waiting == {d \in calls : d.pc = "fetch"}
           first == CHOOSE d \in waiting : \A e \in waiting : d.id <= e.id
       IN  calls' = (calls \ {first}) \cup
               {[first EXCEPT !.pc = "json",
                       !.response = [arrived |-> TRUE, ok |-> ok, text |-> text,
                                     answers |-> c.id]]}
    /\ UNCHANGED <<made, cfg, nCalls, nSent>>

\* fetch resolves for the call c: the response answers the request of c and
\* has a status flag and a body text
fetchResolves(c, ok, text) ==
    /\ c.pc = "fetch"
    /\ calls' = (calls \ {c}) \cup
            {[c EXCEPT !.pc = "json",
                       !.response = [arrived |-> TRUE, ok |-> ok, text |-> text,
                                     answers |-> c.id]]}
    /\ UNCHANGED <<made, cfg, nCalls, nSent>>

\* the failures fetch itself may raise
TransportErrors ==
    {TypeError("fetch failed"),
     [name |-> "AbortError", message |-> "This operation was aborted"]}

\* the request is sent again when the transport fails
fetchRejectsRetries(c, e) ==
    /\ c.pc = "fetch"
    /\ nSent' = nSent + 1
    /\ UNCHANGED <<made, cfg, calls, nCalls>>

\* the client gives up on its own while the request is still unanswered
fetchRejectsTimeout(c, e) ==
    /\ c.pc = "fetch"
    /\ calls' = (calls \ {c}) \cup
            {[c EXCEPT !.pc = "settled",
                       !.outcome = Rejected(Error("Request timed out"))]}
    /\ UNCHANGED <<made, cfg, nCalls, nSent>>

\* fetch rejects with e: the transport call itself failed, and the await
\* in _request throws e
fetchRejects(c, e) ==
    /\ c.pc = "fetch"
    /\ calls' = (calls \ {c}) \cup
            {[c EXCEPT !.pc = "settled",
                       !.response = [arrived |-> FALSE, error |-> e],
                       !.outcome = Rejected(e)]}
    /\ UNCHANGED <<made, cfg, nCalls, nSent>>

\* data.error || "Request failed", as the message of new Error
ErrorMessage(data) ==
    IF data.t \in {"null", "undefined"}
    THEN [threw |-> TRUE,
          error |-> TypeError("Cannot read properties of null (reading 'error')")]
    ELSE [threw |-> FALSE,
          message |-> StringOf(OrElse(GetProp(data, "error"), Str("Request failed")))]

\* return data.data instead of data
RequestResultData(ok, data) ==
    IF ~ok
    THEN LET m == ErrorMessage(data)
         IN  IF m.threw THEN Rejected(m.error) ELSE Rejected(Error(m.message))
    ELSE Resolved(GetProp(data, "data"))

\* the rest of _request once the body is parsed
RequestResult(ok, data) ==
    IF ~ok
    THEN LET m == ErrorMessage(data)
         IN  IF m.threw THEN Rejected(m.error) ELSE Rejected(Error(m.message))
    ELSE Resolved(data)

\* return result instead of result.<field>
ProjectWholeResponse(data, field) == Resolved(data)

\* result.<field> in the operations that return one field of the response
Project(data, field) ==
    IF field = "" THEN Resolved(data)
    ELSE IF data.t \in {"null", "undefined"}
         THEN Rejected(TypeError("Cannot read properties of null"))
         ELSE Resolved(GetProp(data, field))

\* a body that is no JSON is caught and reported as a failed request
responseJsonCaught(c) ==
    /\ c.pc = "json"
    /\ LET parsed == JSONparse(c.response.text)
           result == IF parsed.threw THEN Rejected(Error("Request failed"))
                     ELSE RequestResult(c.response.ok, parsed.value)
           out == IF result.kind = "resolved"
                  THEN Project(result.value, c.project)
                  ELSE result
       IN  calls' = (calls \ {c}) \cup
               {[c EXCEPT !.pc = "settled", !.outcome = out]}
    /\ UNCHANGED <<made, cfg, nCalls, nSent>>

\* response.json() settles, _request finishes and the operation returns
responseJson(c) ==
    /\ c.pc = "json"
    /\ LET parsed == JSONparse(c.response.text)
           result == IF parsed.threw THEN Rejected(parsed.error)
                     ELSE RequestResult(c.response.ok, parsed.value)
           out == IF result.kind = "resolved"
                  THEN Project(result.value, c.project)
                  ELSE result
       IN  calls' = (calls \ {c}) \cup
               {[c EXCEPT !.pc = "settled", !.outcome = out]}
    /\ UNCHANGED <<made, cfg, nCalls, nSent>>

(***************************************************************************)
(* The public operations.  Each passes its action name and parameters to   *)
(* _request and names the field of the response it returns.                *)
(***************************************************************************)
register(formData) ==
    _request("register", <<Obj(formData)>>, "register", formData, "")

login(formData) ==
    _request("login", <<Obj(formData)>>, "login", formData, "")

generateToken == _request("generateToken", <<>>, "generate-token", <<>>, "")

getUserInfo == _request("getUserInfo", <<>>, "get-user-info", <<>>, "")

getDatabases == _request("getDatabases", <<>>, "get-databases", <<>>, "")

createDatabase(name) ==
    _request("createDatabase", <<name>>, "create-database",
             << <<"name", name>> >>, "")

createStore(dbName, storeName) ==
    _request("createStore", <<dbName, storeName>>, "create-store",
             << <<"dbName", dbName>>, <<"storeName", storeName>> >>, "")

set(key, value) ==
    _request("set", <<key, value>>, "set",
             << <<"key", key>>, <<"value", value>> >>, "")

get(key) ==
    _request("get", <<key>>, "get", << <<"key", key>> >>, "value")

getStores(dbName) ==
    _request("getStores", <<dbName>>, "get-stores",
             << <<"dbName", dbName>> >>, "stores")

setMany(entryList) ==
    _request("setMany", <<entryList>>, "setMany",
             << <<"entries", entryList>> >>, "")

getMany(keyList) ==
    _request("getMany", <<keyList>>, "getMany",
             << <<"keys", keyList>> >>, "values")

update(key, value) ==
    _request("update", <<key, value>>, "update",
             << <<"key", key>>, <<"value", value>> >>, "")

delete(key) ==
    _request("delete", <<key>>, "delete", << <<"key", key>> >>, "")

deleteMany(keyList) ==
    _request("deleteMany", <<keyList>>, "deleteMany",
             << <<"keys", keyList>> >>, "")

\* a default parameter value instead of the falsy test
EntriesNameOnlyUndefined(arg, default) ==
    IF arg.t = "undefined" THEN Str(default) ELSE arg

\* if (!dbName) dbName = this.dbName, and the same for storeName
EntriesName(arg, default) == IF Falsy(arg) THEN Str(default) ELSE arg

\* this.dbName = dbName: the names are stored in the client, not in locals
entriesAssignsFields(dbName, storeName) ==
    /\ nCalls < MaxCalls
    /\ LET db == EntriesName(dbName, cfg.dbName)
           st == EntriesName(storeName, cfg.storeName)
           encoded == JSONstringify(RequestBody("entries",
                          << <<"dbName", db>>, <<"storeName", st>> >>))
       IN  /\ cfg' = [cfg EXCEPT !.dbName = StringOf(db),
                                 !.storeName = StringOf(st)]
           /\ calls' = InFlight \cup
                   {[id |-> nCalls + 1, op |-> "entries",
                     args |-> <<dbName, storeName>>, project |-> "entries",
                     pc |-> "fetch", request |-> RequestInit(encoded.text),
                     response |-> NoResponse, outcome |-> Pending]}
    /\ nCalls' = nCalls + 1
    /\ nSent' = nSent + 1
    /\ UNCHANGED made

entries(dbName, storeName) ==
    _request("entries", <<dbName, storeName>>, "entries",
             << <<"dbName", EntriesName(dbName, cfg.dbName)>>,
                <<"storeName", EntriesName(storeName, cfg.storeName)>> >>,
             "entries")

keys == _request("keys", <<>>, "keys", <<>>, "keys")

values == _request("values", <<>>, "values", <<>>, "values")

clear == _request("clear", <<>>, "clear", <<>>, "")

deleteStore(dbName, storeName) ==
    _request("deleteStore", <<dbName, storeName>>, "delete-store",
             << <<"dbName", dbName>>, <<"storeName", storeName>> >>, "")

deleteDatabase(dbName) ==
    _request("deleteDatabase", <<dbName>>, "delete-database",
             << <<"dbName", dbName>> >>, "")

(***************************************************************************)
(* The account operations of the README.  The class defines neither, so    *)
(* the member is undefined and calling it throws a TypeError: no call of   *)
(* _request is made and nothing is sent.                                   *)
(***************************************************************************)
PasswordArgs == {Str("currentPassword123")}
NewPasswordArgs == {Str("newSecurePassword456")}
ConfirmationArgs == {Str("DELETE")}

MissingMember(op, args) ==
    /\ calls' = InFlight \cup
            {[id |-> 0, op |-> op, args |-> args, project |-> "",
              pc |-> "settled", request |-> NoRequest,
              response |-> NoResponse,
              outcome |-> Thrown(TypeError("store." \o op \o " is not a function"))]}
    /\ UNCHANGED <<made, cfg, nCalls, nSent>>

changePassword(currentPassword, newPassword) ==
    MissingMember("changePassword", <<currentPassword, newPassword>>)

deleteAccount(password, confirmation) ==
    MissingMember("deleteAccount", <<password, confirmation>>)

(***************************************************************************)
(* The caller awaits each call before it makes the next one, and drops     *)
(* the outcome of the previous call when it does.                          *)
(***************************************************************************)
Awaited == InFlight = {}

Next ==
    \/ Awaited /\ \E formData \in RegisterForms : register(formData)
    \/ Awaited /\ \E formData \in LoginForms : login(formData)
    \/ Awaited /\ generateToken
    \/ Awaited /\ getUserInfo
    \/ Awaited /\ getDatabases
    \/ Awaited /\ \E name \in NameArgs : createDatabase(name)
    \/ Awaited /\ \E d \in DbArgs, s \in StoreArgs : createStore(d, s)
    \/ Awaited /\ \E k \in KeyArgs, v \in ValueArgs : set(k, v)
    \/ Awaited /\ \E k \in KeyArgs : get(k)
    \/ Awaited /\ \E d \in DbArgs : getStores(d)
    \/ Awaited /\ \E es \in EntriesArgs : setMany(es)
    \/ Awaited /\ \E ks \in KeysArgs : getMany(ks)
    \/ Awaited /\ \E k \in KeyArgs, v \in ValueArgs : update(k, v)
    \/ Awaited /\ \E k \in KeyArgs : delete(k)
    \/ Awaited /\ \E ks \in KeysArgs : deleteMany(ks)
    \/ Awaited /\ \E d \in DbArgs \cup {Null}, s \in StoreArgs \cup {Null} :
            entries(d, s)
    \/ Awaited /\ keys
    \/ Awaited /\ values
    \/ Awaited /\ clear
    \/ Awaited /\ \E d \in DbArgs, s \in StoreArgs : deleteStore(d, s)
    \/ Awaited /\ \E d \in DbArgs : deleteDatabase(d)
    \/ Awaited /\ \E p \in PasswordArgs, n \in NewPasswordArgs :
            changePassword(p, n)
    \/ Awaited /\ \E p \in PasswordArgs, k \in ConfirmationArgs :
            deleteAccount(p, k)
    \/ \E c \in calls, ok \in BOOLEAN, text \in BodyTexts :
            fetchResolves(c, ok, text)
    \/ \E c \in calls, e \in TransportErrors : fetchRejects(c, e)
    \/ \E c \in calls : responseJson(c)

Spec == Init /\ [][Next]_vars

(***************************************************************************)
(* The client made by the factory function instead of the constructor.     *)
(***************************************************************************)
\* the store name of the options taken for the database name as well
storeLegacy(apiUrl, options) ==
    KVStore(apiUrl, [options EXCEPT !.dbName = options.storeName])

\* store(apiUrl, options)
store(apiUrl, options) == KVStore(apiUrl, options)

InitFactory ==
    /\ \E apiUrl \in ApiUrls, options \in Options :
            /\ made = [by |-> "store", apiUrl |-> apiUrl, options |-> options]
            /\ cfg = store(apiUrl, options)
    /\ calls = {}
    /\ nCalls = 0
    /\ nSent = 0

SpecFactory == InitFactory /\ [][Next]_vars

(***************************************************************************)
(* The caller starts calls without awaiting the ones in flight: set on     *)
(* one key with two values, and get on that key, answered in any order.    *)
(***************************************************************************)
ConcValues == {Str("v1"), Str("v2")}
ConcTexts == {ErrorText, FullText}

InitConc ==
    /\ Init
    /\ cfg.apiUrl = "https://x/connect"
    /\ cfg.accessToken = "t"

NextConc ==
    \/ \E k \in KeyArgs, v \in ConcValues : set(k, v)
    \/ \E k \in KeyArgs : get(k)
    \/ \E c \in calls, ok \in BOOLEAN, text \in ConcTexts :
            fetchResolves(c, ok, text)
    \/ \E c \in calls : fetchRejects(c, TypeError("fetch failed"))
    \/ \E c \in calls : responseJson(c)

SpecConc == InitConc /\ [][NextConc]_vars

\* Once fetch has resolved for a call, the body is at hand and the rest of
\* _request runs as a continuation of the event loop: it is not postponed
\* for ever.  Nothing obliges the transport to answer, so the fetch steps
\* carry no fairness.
CallIds == 1..MaxCalls

InitConcFair == InitConc /\ cfg.dbName = "d"

SpecConcFair ==
    /\ InitConcFair
    /\ [][NextConc]_vars
    /\ \A i \in CallIds :
            WF_vars(\E c \in calls : c.id = i /\ responseJson(c))

(***************************************************************************)
(* What the properties below read from a call.                             *)
(***************************************************************************)
Requests == {c \in calls : c.request.sent}
Answered == {c \in Settled : c.response.arrived}

\* the value of a field of the request body (Undefined when it is not sent)
BodyField(c, k) == GetProp(c.request.body, k)

\* the action name the operation table of the specification gives
TableAction(op) ==
    CASE op = "register" -> "register"
      [] op = "login" -> "login"
      [] op = "generateToken" -> "generate-token"
      [] op = "getUserInfo" -> "get-user-info"
      [] op = "getDatabases" -> "get-databases"
      [] op = "createDatabase" -> "create-database"
      [] op = "createStore" -> "create-store"
      [] op = "set" -> "set"
      [] op = "get" -> "get"
      [] op = "getStores" -> "get-stores"
      [] op = "setMany" -> "setMany"
      [] op = "getMany" -> "getMany"
      [] op = "update" -> "update"
      [] op = "delete" -> "delete"
      [] op = "deleteMany" -> "deleteMany"
      [] op = "entries" -> "entries"
      [] op = "keys" -> "keys"
      [] op = "values" -> "values"
      [] op = "clear" -> "clear"
      [] op = "deleteStore" -> "delete-store"
      [] op = "deleteDatabase" -> "delete-database"

\* the operations that name a database or a store in their arguments
NamingOps == {"createStore", "getStores", "entries", "deleteStore", "deleteDatabase"}

\* the field of the response each projecting operation returns
TableField(op) ==
    CASE op = "get" -> "value"
      [] op = "keys" -> "keys"
      [] op = "values" -> "values"
      [] op = "getMany" -> "values"
      [] op = "getStores" -> "stores"
      [] op = "entries" -> "entries"

ProjectingOps == {"get", "keys", "values", "getMany", "getStores", "entries"}

RawOps ==
    {"register", "login", "generateToken", "getUserInfo", "getDatabases",
     "createDatabase", "createStore", "set", "setMany", "update", "delete",
     "deleteMany", "clear", "deleteStore", "deleteDatabase"}

\* the message the specification derives from the body of a failure response
DerivedMessage(text) ==
    LET parsed == JSONparse(text)
    IN  IF /\ ~parsed.threw
           /\ IsObj(parsed.value)
           /\ HasKey(parsed.value.m, "error")
           /\ Lookup(parsed.value.m, "error") \notin {Str(""), Null}
        THEN Lookup(parsed.value.m, "error").s
        ELSE "Request failed"

(***************************************************************************)
(* C1.  When the transport reports a failure status, the operation         *)
(* rejects with the message derived from the body: the body's error field  *)
(* when it is present and non-empty, "Request failed" otherwise.           *)
(* The code reads data.error of whatever response.json() gave: with the    *)
(* body null, or with a body that is no JSON, the rejection carries the    *)
(* message of a TypeError or SyntaxError instead.                          *)
(***************************************************************************)
C1_FailureMessage ==
    \A c \in Answered :
        ~c.response.ok =>
            /\ c.outcome.kind = "rejected"
            /\ c.outcome.error.message = DerivedMessage(c.response.text)

(***************************************************************************)
(* C2.  For every response with a failure status, whatever its body, the   *)
(* outcome is a RequestFailed error (an Error made by _request): never a   *)
(* result, never an error of another kind.                                 *)
(***************************************************************************)
C2_FailureIsRequestFailed ==
    \A c \in Answered :
        ~c.response.ok =>
            /\ c.outcome.kind = "rejected"
            /\ c.outcome.error.name = "Error"

(***************************************************************************)
(* C3.  In every request sent, the body's action is the action name the    *)
(* operation table gives the operation that sent it.                       *)
(***************************************************************************)
C3_ActionFromTable ==
    \A c \in Requests : BodyField(c, "action") = Str(TableAction(c.op))

(***************************************************************************)
(* C4.  In every request sent, dbName and storeName are non-empty          *)
(* strings: the configured default is sent whenever the caller gives no    *)
(* non-empty name.  Stated for a client whose configured names are         *)
(* non-empty and for the operations that take no form data (what form      *)
(* data overrides is C3 and C5).                                           *)
(***************************************************************************)
NonEmptyString(v) == v.t = "string" /\ v.s # ""

C4_NamesNonEmpty ==
    (cfg.dbName # "" /\ cfg.storeName # "") =>
        \A c \in Requests :
            c.op \notin {"register", "login"} =>
                /\ NonEmptyString(BodyField(c, "dbName"))
                /\ NonEmptyString(BodyField(c, "storeName"))

(***************************************************************************)
(* C5.  For every operation other than createStore, getStores, entries,    *)
(* deleteStore and deleteDatabase, the body's dbName and storeName are     *)
(* the configured defaults.                                                *)
(***************************************************************************)
C5_DefaultNames ==
    \A c \in Requests :
        c.op \notin NamingOps =>
            /\ BodyField(c, "dbName") = Str(cfg.dbName)
            /\ BodyField(c, "storeName") = Str(cfg.storeName)

(***************************************************************************)
(* C6.  Every request goes to the configured endpoint with method POST, a  *)
(* Content-Type of application/json and an Authorization header of         *)
(* "Bearer " followed by the configured token.                             *)
(***************************************************************************)
C6_Transport ==
    \A c \in Requests :
        /\ c.request.url = cfg.apiUrl
        /\ c.request.method = "POST"
        /\ c.request.headers.ContentType = "application/json"
        /\ c.request.headers.Authorization = "Bearer " \o cfg.accessToken

C6_Witness ==
    \E c \in Requests :
        /\ c.op = "deleteDatabase"
        /\ cfg.accessToken = "test-token"
        /\ c.request.headers.Authorization = "Bearer test-token"

(***************************************************************************)
(* C7.  Explicit database and store arguments replace the defaults:        *)
(* createStore(db, st) and deleteStore(db, st) send dbName = db and        *)
(* storeName = st; getStores(db) and deleteDatabase(db) send dbName = db   *)
(* and the configured storeName.                                           *)
(***************************************************************************)
C7_ExplicitNames ==
    \A c \in Requests :
        /\ c.op \in {"createStore", "deleteStore"} =>
                /\ BodyField(c, "dbName") = c.args[1]
                /\ BodyField(c, "storeName") = c.args[2]
        /\ c.op \in {"getStores", "deleteDatabase"} =>
                /\ BodyField(c, "dbName") = c.args[1]
                /\ BodyField(c, "storeName") = Str(cfg.storeName)

C7_Witness ==
    \E c \in Requests :
        /\ c.op = "createStore"
        /\ c.args = <<Str("db1"), Str("store1")>>
        /\ cfg.dbName = "d"
        /\ BodyField(c, "dbName") = Str("db1")
        /\ BodyField(c, "storeName") = Str("store1")

(***************************************************************************)
(* C8.  entries(dbName, storeName) falls back per argument: a body field   *)
(* is the configured default when its argument is empty, undefined or      *)
(* null, and the argument otherwise, each independently of the other.      *)
(***************************************************************************)
C8_EntriesFallback ==
    \A c \in Requests :
        c.op = "entries" =>
            /\ BodyField(c, "dbName") =
                    IF c.args[1] \in {Str(""), Undefined, Null}
                    THEN Str(cfg.dbName) ELSE c.args[1]
            /\ BodyField(c, "storeName") =
                    IF c.args[2] \in {Str(""), Undefined, Null}
                    THEN Str(cfg.storeName) ELSE c.args[2]

C8_Witness ==
    \E c \in Requests :
        /\ c.op = "entries"
        /\ c.args = <<Str(""), Str("store1")>>
        /\ cfg.dbName = "d"
        /\ BodyField(c, "dbName") = Str("d")
        /\ BodyField(c, "storeName") = Str("store1")

(***************************************************************************)
(* C9.  On a success response whose body is a JSON object, get returns     *)
(* its value field, keys its keys field, values and getMany its values     *)
(* field, getStores its stores field and entries its entries field, and    *)
(* none of them returns the whole response.                                *)
(***************************************************************************)
C9_ProjectedField ==
    \A c \in Answered :
        LET parsed == JSONparse(c.response.text)
        IN  (/\ c.op \in ProjectingOps
             /\ c.response.ok
             /\ ~parsed.threw
             /\ IsObj(parsed.value)) =>
                /\ c.outcome = Resolved(GetProp(parsed.value, TableField(c.op)))
                /\ c.outcome.value # parsed.value

C9_Witness ==
    \E c \in Answered :
        /\ c.op = "get"
        /\ c.response.ok
        /\ c.response.text = FullText
        /\ c.outcome = Resolved(Str("v1"))

(***************************************************************************)
(* C10.  On a success response, every operation whose result is the raw    *)
(* response returns the parsed body unchanged, whatever fields it has.     *)
(***************************************************************************)
C10_RawResponse ==
    \A c \in Answered :
        LET parsed == JSONparse(c.response.text)
        IN  (c.op \in RawOps /\ c.response.ok /\ ~parsed.threw) =>
                c.outcome = Resolved(parsed.value)

C10_Witness ==
    \E c \in Answered :
        /\ c.op = "set"
        /\ c.response.ok
        /\ c.response.text = FullText
        /\ c.outcome.kind = "resolved"
        /\ GetProp(c.outcome.value, "entries") # Undefined
        /\ GetProp(c.outcome.value, "success") = Bool(TRUE)

(***************************************************************************)
(* C11.  As claimed: the number of requests sent equals the number of      *)
(* operation calls started.  A call whose arguments JSON.stringify cannot  *)
(* encode rejects before fetch is called, so it sends no request.          *)
(***************************************************************************)
C11_OneRequestPerCall == nSent = nCalls

(***************************************************************************)
(* C11, amended.  Constructing a client sends nothing; starting a call     *)
(* sends exactly one request, unless encoding its arguments throws, and    *)
(* then it sends none and rejects at once; no other step sends a request   *)
(* (a failed call is never sent again).                                    *)
(***************************************************************************)
C11_StartSendsOnce ==
    \/ /\ nCalls' = nCalls
       /\ nSent' = nSent
    \/ /\ nCalls' = nCalls + 1
       /\ \E c \in calls' :
            /\ c.id = nCalls'
            /\ IF HasCycle(Arr(c.args))
               THEN /\ nSent' = nSent
                    /\ ~c.request.sent
                    /\ c.outcome.kind = "rejected"
               ELSE /\ nSent' = nSent + 1
                    /\ c.request.sent

C11_RequestsFollowCalls ==
    /\ [](nCalls = 0 => nSent = 0)
    /\ [][C11_StartSendsOnce]_vars

C11_Witness ==
    /\ nCalls = 2
    /\ nSent = 2
    /\ \E c \in Settled : c.request.sent /\ c.outcome.kind = "rejected"

(***************************************************************************)
(* C12.  No operation changes the configuration: the four fields always    *)
(* equal the values the client was made from, also after operations that   *)
(* name a database or a store, and an operation that overrides nothing     *)
(* sends the names given at construction.                                  *)
(***************************************************************************)
C12_ConfigKept ==
    /\ cfg.apiUrl = made.apiUrl
    /\ cfg.accessToken = made.options.accessToken
    /\ cfg.storeName = made.options.storeName
    /\ cfg.dbName = made.options.dbName
    /\ \A c \in Requests :
            c.op \notin NamingOps \cup {"register", "login"} =>
                /\ BodyField(c, "dbName") = Str(made.options.dbName)
                /\ BodyField(c, "storeName") = Str(made.options.storeName)

C12_Witness ==
    \E c \in Settled :
        /\ c.id = 2
        /\ c.op = "entries"
        /\ c.outcome.kind = "resolved"
        /\ BodyField(c, "dbName") = Str("db1")
        /\ BodyField(c, "storeName") = Str("store1")
        /\ made.options.dbName = "d"
        /\ cfg.dbName = "d"
        /\ cfg.storeName = "s"

(***************************************************************************)
(* C13.  Calls issued concurrently on one client: every call sends its     *)
(* own request with its own parameters, a call can start and a response    *)
(* can be delivered whatever else is in flight, no call in flight is       *)
(* dropped or merged with another, and every call settles with the         *)
(* response to its own request, in whichever order the responses arrive.   *)
(***************************************************************************)
\* what a call returns or throws for the response it was given
OwnOutcome(c) ==
    LET data == JSONparse(c.response.text).value
    IN  IF ~c.response.ok THEN Rejected(Error(DerivedMessage(c.response.text)))
        ELSE IF c.op \in ProjectingOps
             THEN Resolved(GetProp(data, TableField(c.op)))
             ELSE Resolved(data)

C13_Separate ==
    /\ \A c, d \in calls : c.id = d.id => c = d
    /\ \A c \in calls :
        /\ c.request.sent
        /\ BodyField(c, "action") = Str(TableAction(c.op))
        /\ BodyField(c, "key") = c.args[1]
        /\ c.op = "set" => BodyField(c, "value") = c.args[2]
        /\ c.response.arrived => c.response.answers = c.id
        /\ (c.pc = "settled" /\ c.response.arrived) => c.outcome = OwnOutcome(c)
        /\ c.pc = "fetch" => ENABLED fetchResolves(c, TRUE, FullText)
    /\ nCalls < MaxCalls => ENABLED set(Str("k1"), Str("v2"))

\* a step leaves every call in flight in place, with its request as sent
C13_NoneDropped ==
    \A c \in InFlight :
        \E d \in calls' :
            /\ d.id = c.id
            /\ d.op = c.op
            /\ d.args = c.args
            /\ d.request = c.request

C13_Independent == []C13_Separate /\ [][C13_NoneDropped]_vars

C13_Witness ==
    \E c, d \in calls :
        /\ c.id = 1 /\ c.op = "set" /\ c.args = <<Str("k1"), Str("v1")>>
        /\ d.id = 2 /\ d.op = "set" /\ d.args = <<Str("k1"), Str("v2")>>
        /\ c.pc = "fetch"
        /\ BodyField(c, "value") = Str("v1")
        /\ d.pc = "settled"
        /\ BodyField(d, "value") = Str("v2")
        /\ d.response.arrived
        /\ d.response.answers = 2
        /\ d.outcome.kind = "resolved"

(***************************************************************************)
(* C14.  The body of every request is exactly action, dbName, storeName    *)
(* and the parameters the operation table lists, in that order, each with  *)
(* the value the caller passed; nothing is added and nothing dropped.      *)
(* Stated for calls none of whose arguments is undefined (JSON has no      *)
(* undefined: such a parameter is left out of the body).                   *)
(***************************************************************************)
\* the parameters of the operation table, with the values of the call
TableParams(c) ==
    CASE c.op \in {"register", "login"} -> c.args[1].m
      [] c.op = "createDatabase" -> << <<"name", c.args[1]>> >>
      [] c.op \in {"set", "update"} ->
            << <<"key", c.args[1]>>, <<"value", c.args[2]>> >>
      [] c.op \in {"get", "delete"} -> << <<"key", c.args[1]>> >>
      [] c.op = "setMany" -> << <<"entries", c.args[1]>> >>
      [] c.op \in {"getMany", "deleteMany"} -> << <<"keys", c.args[1]>> >>
      [] OTHER -> <<>>

\* the names the operation table makes the call send
TableDbName(c) ==
    CASE c.op \in {"createStore", "deleteStore", "getStores", "deleteDatabase"} ->
            c.args[1]
      [] c.op = "entries" ->
            IF c.args[1] \in {Str(""), Null} THEN Str(cfg.dbName) ELSE c.args[1]
      [] OTHER -> Str(cfg.dbName)

TableStoreName(c) ==
    CASE c.op \in {"createStore", "deleteStore"} -> c.args[2]
      [] c.op = "entries" ->
            IF c.args[2] \in {Str(""), Null} THEN Str(cfg.storeName) ELSE c.args[2]
      [] OTHER -> Str(cfg.storeName)

C14_ExactBody ==
    \A c \in Requests :
        (\A i \in 1..Len(c.args) : c.args[i] # Undefined) =>
            c.request.body =
                Obj(<< <<"action", Str(TableAction(c.op))>>,
                       <<"dbName", TableDbName(c)>>,
                       <<"storeName", TableStoreName(c)>> >> \o TableParams(c))

(***************************************************************************)
(* C15.  A client made by store(apiUrl, options) holds the four values     *)
(* new KVStore(apiUrl, options) holds, and sends what that client sends:   *)
(* to apiUrl, with the token of the options, and (where the call names     *)
(* nothing itself) with the database and store names of the options.       *)
(***************************************************************************)
C15_FactoryEquivalent ==
    /\ made.by = "store"
    /\ cfg = KVStore(made.apiUrl, made.options)
    /\ cfg.apiUrl = made.apiUrl
    /\ cfg.accessToken = made.options.accessToken
    /\ cfg.storeName = made.options.storeName
    /\ cfg.dbName = made.options.dbName
    /\ \A c \in Requests :
        /\ c.request.url = made.apiUrl
        /\ c.request.method = "POST"
        /\ c.request.headers.Authorization =
                "Bearer " \o made.options.accessToken
        /\ c.op \notin NamingOps \cup {"register", "login"} =>
                /\ BodyField(c, "dbName") = Str(made.options.dbName)
                /\ BodyField(c, "storeName") = Str(made.options.storeName)

C15_Witness ==
    /\ made.by = "store"
    /\ made.options.dbName = "d"
    /\ \E c \in Answered :
        /\ c.op = "get"
        /\ BodyField(c, "dbName") = Str("d")
        /\ BodyField(c, "storeName") = Str("s")
        /\ c.outcome = Resolved(Str("v1"))

(***************************************************************************)
(* C16.  changePassword and deleteAccount are operations of the client:    *)
(* calling either sends one authenticated request through _request and    *)
(* returns its response.                                                   *)
(***************************************************************************)
C16_AccountOperations ==
    \A c \in calls :
        c.op \in {"changePassword", "deleteAccount"} =>
            /\ c.request.sent
            /\ c.request.headers.Authorization = "Bearer " \o cfg.accessToken
            /\ c.outcome.kind # "thrown"

(***************************************************************************)
(* C17.  A failure that is no failure status reaches the caller as the     *)
(* failure the transport or the JSON layer raised.  When fetch rejects,    *)
(* the call rejects with that very error; when a response with a success   *)
(* status has a body that is no JSON, the call rejects with the            *)
(* SyntaxError of response.json().  Neither is an Error("Request failed"), *)
(* neither resolves, and no request is sent beyond the one of the call.    *)
(***************************************************************************)
TransportFailed(c) == ~c.response.arrived /\ "error" \in DOMAIN c.response

BodyNotJSON(c) ==
    /\ c.response.arrived
    /\ c.response.ok
    /\ JSONparse(c.response.text).threw

C17_NativeFailure ==
    /\ nSent <= nCalls
    /\ \A c \in Settled :
        /\ TransportFailed(c) =>
                /\ c.outcome = Rejected(c.response.error)
                /\ c.outcome.error \in TransportErrors
        /\ BodyNotJSON(c) =>
                /\ c.outcome = Rejected(JSONparse(c.response.text).error)
                /\ c.outcome.error.name = "SyntaxError"

C17_Witness ==
    /\ nSent = 1
    /\ \E c \in Settled :
        /\ BodyNotJSON(c)
        /\ c.response.text = HtmlText
        /\ c.outcome.kind = "rejected"
        /\ c.outcome.error.name = "SyntaxError"

(***************************************************************************)
(* C18.  A call whose request was sent is pending until fetch resolves or  *)
(* rejects for that request: it has no outcome before, it is settled only  *)
(* with a response or a transport failure of its own, the only steps that  *)
(* change a waiting call are those of the transport, and a settled call    *)
(* keeps its outcome.  Once the response has arrived the call completes.   *)
(* No step of the client settles an unanswered call, so a call whose       *)
(* response never arrives stays pending.                                   *)
(***************************************************************************)
C18_PendingState ==
    \A c \in calls :
        /\ c.pc = "fetch" =>
                c.request.sent /\ c.outcome = Pending /\ c.response = NoResponse
        /\ c.pc = "json" =>
                c.request.sent /\ c.outcome = Pending /\ c.response.arrived
        /\ (c.pc = "settled" /\ c.request.sent) =>
                /\ c.outcome.kind \in {"resolved", "rejected"}
                /\ c.response.arrived \/ TransportFailed(c)

C18_CompletesOnce ==
    \A c \in calls :
        /\ c.pc = "settled" => \A d \in calls' : d.id = c.id => d = c
        /\ c.pc = "fetch" =>
                \E d \in calls' :
                    /\ d.id = c.id
                    /\ \/ d = c
                       \/ /\ d.pc = "json"
                          /\ d.response.arrived
                          /\ d.response.answers = c.id
                       \/ d.pc = "settled" /\ TransportFailed(d)
        /\ c.pc = "json" =>
                \E d \in calls' :
                    /\ d.id = c.id
                    /\ \/ d = c
                       \/ /\ d.pc = "settled"
                          /\ d.response = c.response
                          /\ d.outcome.kind \in {"resolved", "rejected"}

C18_Completes ==
    \A i \in CallIds :
        (\E c \in calls : c.id = i /\ c.pc = "json")
            ~> (\E c \in calls : c.id = i /\ c.pc = "settled")

C18_PendingUntilResponse ==
    /\ []C18_PendingState
    /\ [][C18_CompletesOnce]_vars
    /\ C18_Completes

C18_Witness ==
    \E c, d \in calls :
        /\ c.id # d.id
        /\ c.pc = "settled" /\ c.response.arrived
        /\ c.outcome.kind = "resolved"
        /\ d.pc = "fetch" /\ d.request.sent /\ d.outcome = Pending

(***************************************************************************)
(* C19.  When a response with a success status holds an object without     *)
(* the field a projecting operation returns, the operation rejects with a  *)
(* decode error.                                                           *)
(* The code returns result.<field> unexamined: the operation resolves      *)
(* with undefined.                                                         *)
(***************************************************************************)
FieldMissing(c) ==
    /\ c.op \in ProjectingOps
    /\ c.response.arrived
    /\ c.response.ok
    /\ LET parsed == JSONparse(c.response.text)
       IN  /\ ~parsed.threw
           /\ IsObj(parsed.value)
           /\ ~HasKey(parsed.value.m, TableField(c.op))

C19_MissingFieldFails ==
    \A c \in Settled : FieldMissing(c) => c.outcome.kind = "rejected"

====
